---------------------------- MODULE Spec2Model ----------------------------
(***************************************************************************)
(* A model of the pure helpers of caliban/util.py: configuration          *)
(* expansion (dict_product), table reshaping (flipm, reorderm), list      *)
(* chunking (n_chunks, chunks_below_limit, partition) and label           *)
(* sanitization (_clean_label, key_label, value_label, sanitize_labels,   *)
(* script_args_to_labels).                                                 *)
(*                                                                         *)
(* Representation.  A Python str is a sequence of one-character strings;  *)
(* a list or tuple is a sequence; None in the place of a str is the        *)
(* sequence <<"None">>, which is no str because "None" is not a character, *)
(* and None in the place of a list of str is <<None>>, which is no list    *)
(* of str because None is no str.  A dict whose iteration                  *)
(* order cannot influence the value computed from it is a function; the    *)
(* dict given to dict_product, whose key order fixes the order of zip and  *)
(* of itertools.product, is a sequence of <<key, value>> items with        *)
(* distinct keys.  A call that ends in an uncaught exception has           *)
(* raised = TRUE and no return value.                                      *)
(*                                                                         *)
(* Every function is called once: Init draws the function and its          *)
(* argument, the function's action applies it and stores the outcome.      *)
(***************************************************************************)
EXTENDS Integers, Sequences, FiniteSets

VARIABLES fn, arg, result, pc

vars == <<fn, arg, result, pc>>

None == <<"None">>

NoneList == <<None>>

Max(a, b) == IF a >= b THEN a ELSE b

Min(a, b) == IF a <= b THEN a ELSE b

\* ------------------------------------------------------------------------
\* Characters

LowerSeq ==
  <<"a", "b", "c", "d", "e", "f", "g", "h", "i", "j", "k", "l", "m",
    "n", "o", "p", "q", "r", "s", "t", "u", "v", "w", "x", "y", "z">>

UpperSeq ==
  <<"A", "B", "C", "D", "E", "F", "G", "H", "I", "J", "K", "L", "M",
    "N", "O", "P", "Q", "R", "S", "T", "U", "V", "W", "X", "Y", "Z">>

LowerLetters == {LowerSeq[i] : i \in DOMAIN LowerSeq}

UpperLetters == {UpperSeq[i] : i \in DOMAIN UpperSeq}

Digits == {"0", "1", "2", "3", "4", "5", "6", "7", "8", "9"}

\* The character class [a-z0-9_-] of the regular expression of _clean_label.
AllowedChars == LowerLetters \cup Digits \cup {"_", "-"}

\* str.lower on one (ASCII) character.
LowerChar(c) ==
  IF c \in UpperLetters
    THEN LowerSeq[CHOOSE i \in DOMAIN UpperSeq : UpperSeq[i] = c]
    ELSE c

\* str.lower
lower(s) == [i \in DOMAIN s |-> LowerChar(s[i])]

\* str.isalpha on one (ASCII) character.
isalpha(c) == c \in LowerLetters \cup UpperLetters

\* s.lstrip("-")
RECURSIVE lstrip_dash(_)
lstrip_dash(s) ==
  IF s # <<>> /\ Head(s) = "-" THEN lstrip_dash(Tail(s)) ELSE s

\* re.sub(r'[^a-z0-9_-]', '', s)
IsAllowed(c) == c \in AllowedChars

re_sub_disallowed(s) == SelectSeq(s, IsAllowed)

\* Python's seq[lo:hi] for 0 <= lo and 0 <= hi: both ends are clamped to len.
Slice(seq, lo, hi) ==
  LET h == Min(hi, Len(seq))
  IN  IF lo >= h THEN <<>> ELSE [j \in 1..(h - lo) |-> seq[lo + j]]

\* ------------------------------------------------------------------------
\* Label sanitization

MaxLabelLen == 63

_is_key(k) == k # None /\ Len(k) > 0 /\ k[1] = "-"

_truncate_off_by_one(s, max_length) ==
  IF Len(s) <= max_length THEN s ELSE Slice(s, 0, max_length + 1)

_truncate(s, max_length) ==
  IF Len(s) <= max_length THEN s ELSE Slice(s, 0, max_length)

\* The value of `cleaned` when _clean_label reaches its return statement.
cleaned_label(s, is_key) ==
  LET cleaned == re_sub_disallowed(lower(lstrip_dash(s)))
  IN  IF is_key /\ cleaned # <<>> /\ ~isalpha(cleaned[1])
        THEN <<"k">> \o cleaned
        ELSE cleaned

\* A slip that prepends the k after the truncation instead of before it.
_clean_label_prefix_last(s, is_key) ==
  IF s = None
    THEN <<>>
    ELSE LET cut == _truncate(re_sub_disallowed(lower(lstrip_dash(s))),
                              MaxLabelLen)
         IN  IF is_key /\ cut # <<>> /\ ~isalpha(cut[1])
               THEN <<"k">> \o cut
               ELSE cut

_clean_label(s, is_key) ==
  IF s = None THEN <<>> ELSE _truncate(cleaned_label(s, is_key), MaxLabelLen)

key_label(k) == _clean_label(k, TRUE)

value_label(v) == _clean_label(v, FALSE)

\* dict item assignment d[k] = v
DictSet(d, k, v) ==
  [x \in (DOMAIN d) \cup {k} |-> IF x = k THEN v ELSE d[x]]

EmptyDict == [x \in {} |-> <<>>]

\* {key_label(k): value_label(v) for (k, v) in pairs if key_label(k)},
\* built item by item in list order.
RECURSIVE sanitize_from(_, _, _)
sanitize_from(pairs, i, ret) ==
  IF i > Len(pairs)
    THEN ret
    ELSE LET k == pairs[i][1]
             v == pairs[i][2]
         IN  sanitize_from(pairs, i + 1,
               IF key_label(k) # <<>>
                 THEN DictSet(ret, key_label(k), value_label(v))
                 ELSE ret)

\* A slip that filters on the raw key instead of the sanitized one.
RECURSIVE sanitize_raw_filter_from(_, _, _)
sanitize_raw_filter_from(pairs, i, ret) ==
  IF i > Len(pairs)
    THEN ret
    ELSE LET k == pairs[i][1]
             v == pairs[i][2]
         IN  sanitize_raw_filter_from(pairs, i + 1,
               IF k # None /\ k # <<>>
                 THEN DictSet(ret, key_label(k), value_label(v))
                 ELSE ret)

sanitize_labels_raw_filter(pairs) == sanitize_raw_filter_from(pairs, 1, EmptyDict)

sanitize_labels(pairs) == sanitize_from(pairs, 1, EmptyDict)


\* ------------------------------------------------------------------------
\* Windows and script arguments

\* A slip that leaves out the max(1, ...) of the range.
RECURSIVE partition_no_floor_from(_, _, _)
partition_no_floor_from(seq, n, i) ==
  IF i >= Len(seq) - n + 1
    THEN <<>>
    ELSE <<Slice(seq, i, i + n)>> \o partition_no_floor_from(seq, n, i + 1)

partition_no_floor(seq, n) == partition_no_floor_from(seq, n, 0)

\* The windows the generator yields from index i on, in order.
RECURSIVE partition_from(_, _, _)
partition_from(seq, n, i) ==
  IF i >= Max(1, Len(seq) - n + 1)
    THEN <<>>
    ELSE <<Slice(seq, i, i + n)>> \o partition_from(seq, n, i + 1)

partition(seq, n) == partition_from(seq, n, 0)

\* process_pair of script_args_to_labels: the dict ret after the call.
process_pair(ret, k, v) ==
  IF _is_key(k)
    THEN LET clean_k == key_label(k)
         IN  IF clean_k # <<>>
               THEN DictSet(ret, clean_k,
                            IF _is_key(v) THEN <<>> ELSE value_label(v))
               ELSE ret
    ELSE ret

Returned(ret) == [raised |-> FALSE, ret |-> ret]

Raised(error) == [raised |-> TRUE, error |-> error]

\* for k, v in partition(script_args, 2): process_pair(k, v)
\* Unpacking a window into k, v raises ValueError unless it holds two items.
\* The outcome is the dict after the loop, or the exception.
RECURSIVE scan_windows(_, _, _)
scan_windows(windows, i, ret) ==
  IF i > Len(windows)
    THEN Returned(ret)
    ELSE IF Len(windows[i]) # 2
           THEN Raised("ValueError")
           ELSE scan_windows(windows, i + 1,
                             process_pair(ret, windows[i][1], windows[i][2]))

\* A slip that leaves out the call for the final argument.
script_args_to_labels_no_trailing(script_args) ==
  IF script_args = NoneList \/ Len(script_args) = 0
    THEN Returned(EmptyDict)
    ELSE scan_windows(partition(script_args, 2), 1, EmptyDict)

script_args_to_labels(script_args) ==
  IF script_args = NoneList \/ Len(script_args) = 0
    THEN Returned(EmptyDict)
    ELSE LET scanned == scan_windows(partition(script_args, 2), 1, EmptyDict)
         IN  IF scanned.raised
               THEN scanned
               ELSE IF Len(script_args) > 1
                      THEN Returned(process_pair(scanned.ret,
                                      script_args[Len(script_args)], None))
                      ELSE scanned

\* ------------------------------------------------------------------------
\* The label functions, each called once

MaxStrLen == 4

MaxPairs == 2

MaxArgs == 3

Rep(c, n) == [i \in 1..n |-> c]

SeqsUpTo(S, n) == UNION {[1..m -> S] : m \in 0..n}

InputChars == {"-", "a", "A", "1", "_", "."}

\* Strings whose cleaned form is one short of, at, and one over the limit.
LongStrings ==
  {pre \o Rep(c, n) :
     pre \in {<<>>, <<"-">>, <<".">>},
     c \in {"a", "1"},
     n \in (MaxLabelLen - 1)..(MaxLabelLen + 1)}

RawStrings == SeqsUpTo(InputChars, MaxStrLen) \cup LongStrings \cup {None}

PairKeys ==
  { <<"-", "-", "-">>, <<"a">>, <<"-", "A">>, <<"1">>,
    Rep("0", MaxLabelLen + 1) }

PairValues ==
  { None, <<>>, <<"B", ".", "1">>, <<".", "-", "a">>,
    Rep("b", MaxLabelLen + 1) }

PairLists == SeqsUpTo(PairKeys \X PairValues, MaxPairs)

ArgTokens ==
  { <<"-", "-", "a">>, <<"-", "A">>, <<"-", "1">>, <<"-", "-">>,
    <<"-", ".", "-", "a">>, <<"b">>, <<"B", ".", "1">>, <<>>,
    <<"-">> \o Rep("0", MaxLabelLen), Rep("b", MaxLabelLen + 1) }

ArgLists == SeqsUpTo(ArgTokens, MaxArgs) \cup {NoneList}

InitLabels ==
  /\ pc = "ready"
  /\ result = <<>>
  /\ \/ fn = "key_label" /\ arg \in RawStrings
     \/ fn = "value_label" /\ arg \in RawStrings
     \/ fn = "sanitize_labels" /\ arg \in PairLists
     \/ fn = "script_args_to_labels" /\ arg \in ArgLists

Call_key_label ==
  /\ pc = "ready" /\ fn = "key_label"
  /\ result' = key_label(arg)
  /\ pc' = "done"
  /\ UNCHANGED <<fn, arg>>

Call_value_label ==
  /\ pc = "ready" /\ fn = "value_label"
  /\ result' = value_label(arg)
  /\ pc' = "done"
  /\ UNCHANGED <<fn, arg>>

Call_sanitize_labels ==
  /\ pc = "ready" /\ fn = "sanitize_labels"
  /\ result' = sanitize_labels(arg)
  /\ pc' = "done"
  /\ UNCHANGED <<fn, arg>>

Call_script_args_to_labels ==
  /\ pc = "ready" /\ fn = "script_args_to_labels"
  /\ result' = script_args_to_labels(arg)
  /\ pc' = "done"
  /\ UNCHANGED <<fn, arg>>

NextLabels ==
  \/ Call_key_label
  \/ Call_value_label
  \/ Call_sanitize_labels
  \/ Call_script_args_to_labels

SpecLabels == InitLabels /\ [][NextLabels]_vars

\* ------------------------------------------------------------------------
\* Claims about the label functions (checked under SpecLabels)

Called(f) == pc = "done" /\ fn = f

\* The indices of the tokens that are flags with a non-empty sanitized key.
FlagAt(tokens) ==
  {i \in 1..Len(tokens) : _is_key(tokens[i]) /\ key_label(tokens[i]) # <<>>}

\* The last flag index whose sanitized key is k.
LastFlag(tokens, k) ==
  CHOOSE i \in FlagAt(tokens) :
    /\ key_label(tokens[i]) = k
    /\ \A j \in FlagAt(tokens) : key_label(tokens[j]) = k => j <= i

ExpectedLabels(tokens) ==
  [k \in {key_label(tokens[i]) : i \in FlagAt(tokens)} |->
     LET i == LastFlag(tokens, k)
     IN  IF i = Len(tokens) \/ _is_key(tokens[i + 1])
           THEN <<>>
           ELSE value_label(tokens[i + 1])]

\* C1: script_args_to_labels never raises and returns a mapping for None and
\* for token lists of every length; a list of length <= 1 gives the empty
\* mapping, or the single flag with the empty-string value.
C1_TotalOnEveryLength ==
  Called("script_args_to_labels") =>
    /\ ~result.raised
    /\ (arg = NoneList \/ Len(arg) = 0) => result.ret = EmptyDict
    /\ (arg # NoneList /\ Len(arg) = 1) =>
         result.ret = IF 1 \in FlagAt(arg)
                        THEN [k \in {key_label(arg[1])} |-> <<>>]
                        ELSE EmptyDict

\* C2: for a token list of length >= 2 the returned mapping is exactly the
\* one built by visiting the tokens in order: each flag with a non-empty
\* sanitized key maps to "" when it is last or followed by a flag and to the
\* sanitized next token otherwise, the last write to a key winning.
C2_PairsInOrder ==
  (Called("script_args_to_labels") /\ arg # NoneList /\ Len(arg) >= 2) =>
    /\ ~result.raised
    /\ result.ret = ExpectedLabels(arg)

\* Three tokens: a flag with a value, then a trailing flag that sanitizes to
\* the same key and replaces the value by "".
C2_Witness ==
  /\ Called("script_args_to_labels")
  /\ arg # NoneList
  /\ Len(arg) = 3
  /\ _is_key(arg[1]) /\ ~_is_key(arg[2]) /\ _is_key(arg[3])
  /\ arg[1] # arg[3]
  /\ key_label(arg[1]) = key_label(arg[3])
  /\ value_label(arg[2]) # <<>>
  /\ ~result.raised
  /\ DOMAIN result.ret = {key_label(arg[3])}
  /\ result.ret[key_label(arg[3])] = <<>>

CharsAllowed(s) == \A i \in DOMAIN s : s[i] \in AllowedChars

ValidKey(k) ==
  /\ k # <<>>
  /\ CharsAllowed(k)
  /\ k[1] \in LowerLetters
  /\ Len(k) <= MaxLabelLen

ValidValue(v) == CharsAllowed(v) /\ Len(v) <= MaxLabelLen

ValidLabels(d) == \A k \in DOMAIN d : ValidKey(k) /\ ValidValue(d[k])

\* C3: every key of a mapping returned by sanitize_labels or
\* script_args_to_labels is non-empty, over [a-z0-9_-], starts with a letter
\* and is at most 63 long; every value is over [a-z0-9_-] and at most 63
\* long; a cleaned string longer than 63, with or without the k prefix, is
\* cut to exactly 63.
C3_LabelsValid ==
  /\ Called("sanitize_labels") =>
       /\ ValidLabels(result)
       /\ \A i \in 1..Len(arg) :
            Len(cleaned_label(arg[i][1], TRUE)) > MaxLabelLen =>
              /\ key_label(arg[i][1]) \in DOMAIN result
              /\ Len(key_label(arg[i][1])) = MaxLabelLen
  /\ (Called("script_args_to_labels") /\ ~result.raised) =>
       ValidLabels(result.ret)
  /\ (Called("key_label") /\ arg # None
        /\ Len(cleaned_label(arg, TRUE)) > MaxLabelLen) =>
       Len(result) = MaxLabelLen
  /\ (Called("value_label") /\ arg # None
        /\ Len(cleaned_label(arg, FALSE)) > MaxLabelLen) =>
       Len(result) = MaxLabelLen

\* A key of digits that received the k prefix and was cut to 63, with a value
\* that was cut to 63.
C3_Witness ==
  /\ Called("sanitize_labels")
  /\ \E i \in 1..Len(arg) :
       /\ arg[i][1][1] \in Digits
       /\ Len(arg[i][1]) > MaxLabelLen
       /\ key_label(arg[i][1]) \in DOMAIN result
       /\ key_label(arg[i][1])[1] = "k"
       /\ Len(key_label(arg[i][1])) = MaxLabelLen
       /\ arg[i][2] # None
       /\ Len(arg[i][2]) > MaxLabelLen
       /\ Len(result[key_label(arg[i][1])]) = MaxLabelLen

\* The indices of the pairs whose key sanitizes to a non-empty label.
KeptAt(pairs) == {i \in 1..Len(pairs) : key_label(pairs[i][1]) # <<>>}

LastKept(pairs, k) ==
  CHOOSE i \in KeptAt(pairs) :
    /\ key_label(pairs[i][1]) = k
    /\ \A j \in KeptAt(pairs) : key_label(pairs[j][1]) = k => j <= i

\* C4: sanitize_labels returns exactly the entries key_label(k) ->
\* value_label(v) of the pairs whose sanitized key is non-empty, the last
\* pair in list order winning for a key; a pair whose key sanitizes to ""
\* adds nothing and a None value becomes "".
C4_SanitizeLabelsExact ==
  Called("sanitize_labels") =>
    /\ DOMAIN result = {key_label(arg[i][1]) : i \in KeptAt(arg)}
    /\ \A k \in DOMAIN result :
         result[k] = value_label(arg[LastKept(arg, k)][2])
    /\ \A i \in KeptAt(arg) :
         (arg[i][2] = None /\ LastKept(arg, key_label(arg[i][1])) = i) =>
           result[key_label(arg[i][1])] = <<>>

\* Two different raw keys with the same sanitized key: the second pair, whose
\* value is None, replaces the non-empty value of the first.
C4_Witness ==
  /\ Called("sanitize_labels")
  /\ Len(arg) = 2
  /\ arg[1][1] # arg[2][1]
  /\ key_label(arg[1][1]) = key_label(arg[2][1])
  /\ key_label(arg[1][1]) # <<>>
  /\ value_label(arg[1][2]) # <<>>
  /\ arg[2][2] = None
  /\ result = [k \in {key_label(arg[2][1])} |-> <<>>]

\* C10 as stated: sanitizing a sanitized label again changes nothing, for
\* keys and for values.
C10_IdempotentBothPaths ==
  /\ Called("key_label") => key_label(result) = result
  /\ Called("value_label") => value_label(result) = result

\* C10 as amended: key_label is idempotent; value_label is idempotent on
\* every input whose sanitized value does not start with "-", and otherwise
\* the second pass strips the dashes the first pass left at the front.
C10_IdempotentKeysOnly ==
  /\ Called("key_label") => key_label(result) = result
  /\ Called("value_label") =>
       /\ value_label(result) = lstrip_dash(result)
       /\ (result = <<>> \/ result[1] # "-") => value_label(result) = result

\* A value with a removed character between leading dashes: "-.-a" gives
\* "-a", and sanitizing "-a" gives "a".
C10_Witness ==
  /\ Called("value_label")
  /\ arg = <<"-", ".", "-", "a">>
  /\ result = <<"-", "a">>
  /\ value_label(result) = <<"a">>

\* ------------------------------------------------------------------------
\* Table reshaping

\* The keys of a dict as a list.  flipm and reorderm only insert into nested
\* dicts and sets, so the mapping they build does not depend on the order.
RECURSIVE KeyList(_)
KeyList(S) ==
  IF S = {}
    THEN <<>>
    ELSE LET x == CHOOSE x \in S : TRUE IN <<x>> \o KeyList(S \ {x})

\* ret.setdefault(k, default), as the value it returns
SetDefault(ret, k, default) == IF k \in DOMAIN ret THEN ret[k] ELSE default

\* A slip that writes the inner key in both places.
flipm_put_same_key(ret, k, k2, v) ==
  DictSet(ret, k2, DictSet(SetDefault(ret, k2, EmptyDict), k2, v))

\* ret.setdefault(k2, {})[k] = v
flipm_put(ret, k, k2, v) ==
  DictSet(ret, k2, DictSet(SetDefault(ret, k2, EmptyDict), k, v))

\* for k2, v in m.items(): ...
RECURSIVE flipm_inner(_, _, _, _, _)
flipm_inner(ret, k, m, k2s, j) ==
  IF j > Len(k2s)
    THEN ret
    ELSE flipm_inner(flipm_put(ret, k, k2s[j], m[k2s[j]]), k, m, k2s, j + 1)

\* for k, m in table.items(): ...
RECURSIVE flipm_outer(_, _, _, _)
flipm_outer(ret, table, ks, i) ==
  IF i > Len(ks)
    THEN ret
    ELSE flipm_outer(
           flipm_inner(ret, ks[i], table[ks[i]],
                       KeyList(DOMAIN table[ks[i]]), 1),
           table, ks, i + 1)

flipm(table) == flipm_outer(EmptyDict, table, KeyList(DOMAIN table), 1)

\* A slip that replaces the leaf set instead of adding to it.
reorderm_put_overwrite(ret, fields, order) ==
  LET a == fields[order[1] + 1]
      b == fields[order[2] + 1]
      c == fields[order[3] + 1]
      innerm == SetDefault(ret, a, EmptyDict)
  IN  DictSet(ret, a, DictSet(innerm, b, {c}))

\* innerm = ret.setdefault(fields[order[0]], {})
\* acc = innerm.setdefault(fields[order[1]], set())
\* acc.add(fields[order[2]])
reorderm_put(ret, fields, order) ==
  LET a == fields[order[1] + 1]
      b == fields[order[2] + 1]
      c == fields[order[3] + 1]
      innerm == SetDefault(ret, a, EmptyDict)
      acc == SetDefault(innerm, b, {})
  IN  DictSet(ret, a, DictSet(innerm, b, acc \cup {c}))

\* for v in vs: ...
RECURSIVE reorderm_leaf(_, _, _, _, _, _)
reorderm_leaf(ret, k, k2, vs, order, n) ==
  IF n > Len(vs)
    THEN ret
    ELSE reorderm_leaf(reorderm_put(ret, <<k, k2, vs[n]>>, order),
                       k, k2, vs, order, n + 1)

\* for k2, vs in m.items(): ...
RECURSIVE reorderm_inner(_, _, _, _, _, _)
reorderm_inner(ret, k, m, k2s, order, j) ==
  IF j > Len(k2s)
    THEN ret
    ELSE reorderm_inner(
           reorderm_leaf(ret, k, k2s[j], m[k2s[j]], order, 1),
           k, m, k2s, order, j + 1)

\* for k, m in table.items(): ...
RECURSIVE reorderm_outer(_, _, _, _, _)
reorderm_outer(ret, table, ks, order, i) ==
  IF i > Len(ks)
    THEN ret
    ELSE reorderm_outer(
           reorderm_inner(ret, ks[i], table[ks[i]],
                          KeyList(DOMAIN table[ks[i]]), order, 1),
           table, ks, order, i + 1)

reorderm(table, order) ==
  reorderm_outer(EmptyDict, table, KeyList(DOMAIN table), order, 1)

\* ------------------------------------------------------------------------
\* The table functions, each called once

MaxOuter == 2

MaxInner == 2

\* Every dict with keys among K and values in V.
Dicts(K, V) == UNION {[D -> V] : D \in SUBSET K}

OuterNames == <<"a", "b", "c">>

InnerNames == <<"x", "y", "z">>

OuterKeys == {OuterNames[i] : i \in 1..MaxOuter}

InnerKeys == {InnerNames[i] : i \in 1..MaxInner}

FlipValues == {"p", "q"}

FlipTables == Dicts(OuterKeys, Dicts(InnerKeys, FlipValues))

\* Leaf iterables: empty, with a repeated value, with two values.
LeafLists == {<<>>, <<"p", "p">>, <<"q", "p">>}

ReorderTables == Dicts(OuterKeys, Dicts({"x", "y"}, LeafLists))

\* The permutations of (0, 1, 2).
Orders ==
  {o \in {0, 1, 2} \X {0, 1, 2} \X {0, 1, 2} : {o[1], o[2], o[3]} = {0, 1, 2}}

InitTables ==
  /\ pc = "ready"
  /\ result = <<>>
  /\ \/ fn = "flipm" /\ arg \in FlipTables
     \/ fn = "reorderm" /\ arg \in ReorderTables \X Orders

Call_flipm ==
  /\ pc = "ready" /\ fn = "flipm"
  /\ result' = flipm(arg)
  /\ pc' = "done"
  /\ UNCHANGED <<fn, arg>>

Call_reorderm ==
  /\ pc = "ready" /\ fn = "reorderm"
  /\ result' = reorderm(arg[1], arg[2])
  /\ pc' = "done"
  /\ UNCHANGED <<fn, arg>>

NextTables == Call_flipm \/ Call_reorderm

SpecTables == InitTables /\ [][NextTables]_vars

\* ------------------------------------------------------------------------
\* Claims about the table functions (checked under SpecTables)

NoDuplicateInnerKeys(t) ==
  \A k, l \in DOMAIN t : k # l => (DOMAIN t[k]) \cap (DOMAIN t[l]) = {}

InnerNonEmpty(t) == \A k \in DOMAIN t : DOMAIN t[k] # {}

\* C6 as stated: flipping twice gives the table back, for every table with
\* no inner key under two outer keys, its inner mappings possibly empty.
C6_FlipTwicePossiblyEmpty ==
  (Called("flipm") /\ NoDuplicateInnerKeys(arg)) => flipm(result) = arg

\* C6 as amended: flipping twice gives the table back, for every table with
\* no inner key under two outer keys whose inner mappings are all non-empty.
C6_FlipTwiceNonEmpty ==
  (Called("flipm") /\ NoDuplicateInnerKeys(arg) /\ InnerNonEmpty(arg)) =>
    flipm(result) = arg

\* Two outer keys with different, non-empty inner mappings; the flipped table
\* is keyed by the inner keys and flips back.
C6_Witness ==
  /\ Called("flipm")
  /\ NoDuplicateInnerKeys(arg)
  /\ InnerNonEmpty(arg)
  /\ Cardinality(DOMAIN arg) = 2
  /\ DOMAIN result = UNION {DOMAIN arg[k] : k \in DOMAIN arg}
  /\ \A k \in DOMAIN arg : \A k2 \in DOMAIN arg[k] : result[k2][k] = arg[k][k2]
  /\ flipm(result) = arg

\* The (k1, k2, v) triples of a table of iterables.
Triples(t) ==
  UNION {UNION {{<<k, k2, t[k][k2][n]>> : n \in 1..Len(t[k][k2])} :
                  k2 \in DOMAIN t[k]} :
           k \in DOMAIN t}

Regrouped(t, order) ==
  {<<f[order[1] + 1], f[order[2] + 1], f[order[3] + 1]>> : f \in Triples(t)}

\* The (a, b, c) with c a member of r[a][b].
Members(r) ==
  UNION {UNION {{<<a, b, c>> : c \in r[a][b]} : b \in DOMAIN r[a]} :
           a \in DOMAIN r}

\* C7: c is in result[a][b] exactly when (a, b, c) is the regrouping of a
\* triple (k1, k2, v) of the table, and the result has no outer key, inner
\* key or leaf set that comes from no triple.
C7_ReorderExact ==
  Called("reorderm") =>
    /\ Members(result) = Regrouped(arg[1], arg[2])
    /\ \A a \in DOMAIN result :
         /\ DOMAIN result[a] # {}
         /\ \A b \in DOMAIN result[a] : result[a][b] # {}

\* A value listed twice under one key pair and once under another outer key,
\* regrouped by value: the three triples collapse into a leaf of two keys.
C7_Witness ==
  /\ Called("reorderm")
  /\ arg[2] = <<2, 1, 0>>
  /\ DOMAIN arg[1] = {"a", "b"}
  /\ DOMAIN arg[1]["a"] = {"x"} /\ arg[1]["a"]["x"] = <<"p", "p">>
  /\ DOMAIN arg[1]["b"] = {"x"} /\ arg[1]["b"]["x"] = <<"q", "p">>
  /\ DOMAIN result = {"p", "q"}
  /\ result["p"]["x"] = {"a", "b"}
  /\ result["q"]["x"] = {"b"}

\* ------------------------------------------------------------------------
\* Configuration expansion

\* A dict value is <<"list", items>> for a list and <<"scalar", v>> for
\* anything else; the tag is what isinstance(v, list) reads.
ListValue(items) == <<"list", items>>

ScalarValue(v) == <<"scalar", v>>

\* A slip that wraps every value, lists too.
wrap_v_always(v) == <<v[2]>>

wrap_v(v) == IF v[1] = "list" THEN v[2] ELSE <<v[2]>>

\* [x + [y] for x in tuples for y in pool]: x outermost, y innermost.
AppendEach(tuples, pool) ==
  [n \in 1..(Len(tuples) * Len(pool)) |->
     Append(tuples[((n - 1) \div Len(pool)) + 1],
            pool[((n - 1) % Len(pool)) + 1])]

\* itertools.product(*pools): the tuples in the order they are produced,
\* the last pool varying fastest.
RECURSIVE product_from(_, _, _)
product_from(pools, i, tuples) ==
  IF i > Len(pools)
    THEN tuples
    ELSE product_from(pools, i + 1, AppendEach(tuples, pools[i]))

product(pools) == product_from(pools, 1, <<<<>>>>)

\* dict(zip(ks, x)) for distinct keys ks
dict_zip(ks, x) ==
  [k \in {ks[i] : i \in 1..Min(Len(ks), Len(x))} |->
     x[CHOOSE i \in 1..Min(Len(ks), Len(x)) : ks[i] = k]]

\* m is the list of the <<key, value>> items of the dict, in its key order;
\* the result is the list of the dicts the generator yields.
dict_product(m) ==
  LET ks == [i \in 1..Len(m) |-> m[i][1]]
      vs == [i \in 1..Len(m) |-> wrap_v(m[i][2])]
      xs == product(vs)
  IN  [n \in 1..Len(xs) |-> dict_zip(ks, xs[n])]

\* ------------------------------------------------------------------------
\* dict_product, called once

MaxKeys == 2

MaxList == 2

KeyNames == <<"a", "b", "c">>

ConfigKeys == {KeyNames[i] : i \in 1..MaxKeys}

ConfigScalars == {1, 2}

ConfigValues ==
  {ListValue(l) : l \in SeqsUpTo(ConfigScalars, MaxList)}
    \cup {ScalarValue(v) : v \in ConfigScalars}

\* The dicts with keys among ConfigKeys, as item lists in every key order.
ConfigDicts ==
  {m \in SeqsUpTo(ConfigKeys \X ConfigValues, MaxKeys) :
     \A i, j \in 1..Len(m) : i # j => m[i][1] # m[j][1]}

InitProduct ==
  /\ pc = "ready"
  /\ result = <<>>
  /\ fn = "dict_product"
  /\ arg \in ConfigDicts

Call_dict_product ==
  /\ pc = "ready" /\ fn = "dict_product"
  /\ result' = dict_product(arg)
  /\ pc' = "done"
  /\ UNCHANGED <<fn, arg>>

NextProduct == Call_dict_product

SpecProduct == InitProduct /\ [][NextProduct]_vars

\* ------------------------------------------------------------------------
\* Claims about dict_product (checked under SpecProduct)

\* The list a value stands for: the list itself, or the one non-list value.
ListOf(v) == IF v[1] = "list" THEN v[2] ELSE <<v[2]>>

RECURSIVE ProductOfLengths(_, _)
ProductOfLengths(m, i) ==
  IF i > Len(m) THEN 1 ELSE Len(ListOf(m[i][2])) * ProductOfLengths(m, i + 1)

\* The n-th index combination, counting with the last key's index fastest.
IndexCombination(m, n) ==
  [i \in 1..Len(m) |->
     (((n - 1) \div ProductOfLengths(m, i + 1)) % Len(ListOf(m[i][2]))) + 1]

\* The dict an index combination selects.
Selected(m, c) ==
  [k \in {m[i][1] : i \in 1..Len(m)} |->
     LET i == CHOOSE i \in 1..Len(m) : m[i][1] = k
     IN  ListOf(m[i][2])[c[i]]]

\* C5: dict_product yields product(n_i) dicts, each with exactly the keys of
\* m and one value of each key's list; the n-th dict is the one the n-th
\* index combination selects and no two dicts come from the same
\* combination, so the dicts are exactly the index combinations of the
\* cartesian product; an empty list gives no dict and the empty mapping
\* gives one empty dict.
C5_CartesianProduct ==
  Called("dict_product") =>
    /\ Len(result) = ProductOfLengths(arg, 1)
    /\ \A n \in 1..Len(result) :
         /\ DOMAIN result[n] = {arg[i][1] : i \in 1..Len(arg)}
         /\ \A i \in 1..Len(arg) :
              \E j \in 1..Len(ListOf(arg[i][2])) :
                result[n][arg[i][1]] = ListOf(arg[i][2])[j]
         /\ result[n] = Selected(arg, IndexCombination(arg, n))
    /\ Cardinality({IndexCombination(arg, n) : n \in 1..Len(result)})
         = Len(result)
    /\ (\E i \in 1..Len(arg) : ListOf(arg[i][2]) = <<>>) => result = <<>>
    /\ arg = <<>> => result = <<EmptyDict>>

\* A list of two values and a scalar: two dicts, in list order, the scalar
\* in both.
C5_Witness ==
  /\ Called("dict_product")
  /\ arg = <<<<"a", ListValue(<<1, 2>>)>>, <<"b", ScalarValue(2)>>>>
  /\ Len(result) = 2
  /\ result[1]["a"] = 1 /\ result[1]["b"] = 2
  /\ result[2]["a"] = 2 /\ result[2]["b"] = 2

\* ------------------------------------------------------------------------
\* Chunking

\* Python's items[start::step] for 0 <= start and step >= 1.
Stride(items, start, step) ==
  LET count == IF start >= Len(items)
                 THEN 0
                 ELSE ((Len(items) - start - 1) \div step) + 1
  IN  [j \in 1..count |-> items[start + (j - 1) * step + 1]]

\* [items[i::n_groups] for i in range(n_groups)]
n_chunks(items, n_groups) ==
  [g \in 1..n_groups |-> Stride(items, g - 1, n_groups)]

\* quot, _ = divmod(len(items), limit); limit >= 1
chunks_below_limit(items, limit) == n_chunks(items, (Len(items) \div limit) + 1)

\* ------------------------------------------------------------------------
\* The list functions, each called once

MaxItems == 4

MaxLimit == 3

MaxWindow == 3

ItemLists == SeqsUpTo({"x", "y"}, MaxItems)

\* limit = 1 is left out: no chunking of a non-empty list has all its chunks
\* shorter than 1, so only limits that some chunking can meet are called.
ChunkLimits == 2..MaxLimit

InitLists ==
  /\ pc = "ready"
  /\ result = <<>>
  /\ \/ fn = "chunks_below_limit" /\ arg \in ItemLists \X ChunkLimits
     \/ fn = "partition" /\ arg \in ItemLists \X (0..MaxWindow)

Call_chunks_below_limit ==
  /\ pc = "ready" /\ fn = "chunks_below_limit"
  /\ result' = chunks_below_limit(arg[1], arg[2])
  /\ pc' = "done"
  /\ UNCHANGED <<fn, arg>>

Call_partition ==
  /\ pc = "ready" /\ fn = "partition"
  /\ result' = partition(arg[1], arg[2])
  /\ pc' = "done"
  /\ UNCHANGED <<fn, arg>>

NextLists == Call_chunks_below_limit \/ Call_partition

SpecLists == InitLists /\ [][NextLists]_vars

\* ------------------------------------------------------------------------
\* Claims about the list functions (checked under SpecLists)

\* C8: partition(seq, n) yields max(1, len(seq) - n + 1) windows, the i-th
\* holding the items from position i on, n of them or as many as are left;
\* with len(seq) >= n >= 1 every window holds n items and a window's last
\* n - 1 items are the next window's first n - 1; with len(seq) < n the one
\* window is the whole sequence.
C8_SlidingWindows ==
  Called("partition") =>
    LET seq == arg[1]
        n == arg[2]
    IN  /\ Len(result) = Max(1, Len(seq) - n + 1)
        /\ \A i \in 1..Len(result) :
             /\ Len(result[i]) = Min(n, Max(0, Len(seq) - (i - 1)))
             /\ \A j \in 1..Len(result[i]) : result[i][j] = seq[i - 1 + j]
        /\ (Len(seq) >= n /\ n >= 1) =>
             /\ \A i \in 1..Len(result) : Len(result[i]) = n
             /\ \A i \in 1..(Len(result) - 1) :
                  \A j \in 1..(n - 1) : result[i][j + 1] = result[i + 1][j]
        /\ Len(seq) < n => result = <<seq>>

\* A sequence of four items in windows of two: three windows, each sharing
\* one item with the next.
C8_Witness ==
  /\ Called("partition")
  /\ Len(arg[1]) = 4
  /\ arg[1][2] # arg[1][3]
  /\ arg[2] = 2
  /\ Len(result) = 3
  /\ result[1] = <<arg[1][1], arg[1][2]>>
  /\ result[2] = <<arg[1][2], arg[1][3]>>
  /\ result[3] = <<arg[1][3], arg[1][4]>>

\* How often x occurs in the list l.
Count(l, x) == Cardinality({j \in 1..Len(l) : l[j] = x})

RECURSIVE CountInChunks(_, _, _)
CountInChunks(chunks, x, g) ==
  IF g > Len(chunks)
    THEN 0
    ELSE Count(chunks[g], x) + CountInChunks(chunks, x, g + 1)

\* C9: the chunks of chunks_below_limit hold every item of the list exactly
\* once, and every chunk is shorter than limit (checked for limit >= 2).
C9_ChunksShorterThanLimit ==
  Called("chunks_below_limit") =>
    /\ \A x \in {"x", "y"} : CountInChunks(result, x, 1) = Count(arg[1], x)
    /\ \A g \in 1..Len(result) : Len(result[g]) < arg[2]

\* The part of C9 the code keeps: every item is in exactly one chunk, and no
\* chunk is longer than limit.
ChunksKeepItemsWithinLimit ==
  Called("chunks_below_limit") =>
    /\ \A x \in {"x", "y"} : CountInChunks(result, x, 1) = Count(arg[1], x)
    /\ \A g \in 1..Len(result) : Len(result[g]) <= arg[2]

=============================================================================
